---- MODULE Spec2Model ----
(***************************************************************************)
(* Gestion-absence: a Streamlit gradebook (src/app.py) and its simulated   *)
(* cloud store (src/database_connector.py).                                *)
(*                                                                         *)
(* A DataFrame is [columns, data]: the ordered column names and the rows,  *)
(* each row a sequence of cells.  A cell is [t, n, s]: its kind t, its     *)
(* number n (a bool as 0/1, an int as itself, a float in hundredths) and   *)
(* its text s.  A column name is the sequence of the chunks of its text,   *)
(* so that Python's substring test ('Présence' in col) is a test on the    *)
(* chunks, and 'Moyenne Notes' does contain 'Note'.                        *)
(***************************************************************************)
EXTENDS Integers, Sequences, FiniteSets, TLC

VARIABLES
    csv_file,       \* 'data.csv' as load_and_clean_data_from_csv finds it
    session_state,  \* st.session_state: a function on the keys that are set
    df_active,      \* the script's global df_active (app.py line 136)
    click,          \* what triggered the latest script run
    grid_in,        \* the table the latest run handed to st.data_editor
    report_arg,     \* the table handed to a report function, after the call
    shown,          \* what the latest run displayed below the buttons
    fop,            \* function harness: the operation applied
    fin,            \* function harness: its input
    fout            \* function harness: its result

vars == <<csv_file, session_state, df_active, click, grid_in, report_arg,
          shown, fop, fin, fout>>

(***************************************************************************)
(* Bounds of the model.                                                    *)
(***************************************************************************)
MaxRows == 2

(***************************************************************************)
(* Keys and column names.                                                  *)
(***************************************************************************)
DATA_KEY == "persisted_data"
FIREBASE_COLLECTION_KEY == "simulated_firestore_data"
DATA_DF == "data_df"

Nom == <<"Nom">>
S1 == <<"S1">>
PresenceS1 == <<"Présence", "_S1">>
PresenceS2 == <<"Présence", "_S2">>
NoteS1 == <<"Note", "_S1">>
NoteS2 == <<"Note", "_S2">>
TotalAbsences == <<"Total Absences">>
MoyenneNotes == <<"Moyenne ", "Note", "s">>

\* Python's  tok in col  for a column name col
Contains(col, tok) == \E i \in DOMAIN col : col[i] = tok

\* Python's  name in df.columns
HasColumn(df, name) == \E i \in DOMAIN df.columns : df.columns[i] = name

ColumnIndex(df, name) == CHOOSE i \in DOMAIN df.columns : df.columns[i] = name

(***************************************************************************)
(* Cells.                                                                  *)
(***************************************************************************)
CBool(b) == [t |-> "bool", n |-> IF b THEN 1 ELSE 0, s |-> ""]
CInt(k) == [t |-> "int", n |-> k, s |-> ""]
CFloat(h) == [t |-> "float", n |-> h, s |-> ""]   \* h hundredths
CStr(x) == [t |-> "str", n |-> 0, s |-> x]
NaN == [t |-> "nan", n |-> 0, s |-> ""]
None == [t |-> "none", n |-> 0, s |-> ""]
Null == [t |-> "null", n |-> 0, s |-> ""]        \* JSON null

\* the value of a numeric cell, in hundredths
Hundredths(c) == IF c.t = "float" THEN c.n ELSE 100 * c.n

IsNumber(c) == c.t \in {"int", "float"}

(***************************************************************************)
(* DataFrames.                                                             *)
(***************************************************************************)
EmptyDataFrame == [columns |-> <<>>, data |-> <<>>]

\* DataFrame.empty
IsEmpty(df) == Len(df.columns) = 0 \/ Len(df.data) = 0

\* the cells of column j, top to bottom
Column(df, j) == [i \in DOMAIN df.data |-> df.data[i][j]]

\* the frame with column j replaced by the cells col
WithColumn(df, j, col) ==
    [df EXCEPT !.data = [i \in DOMAIN df.data |->
                            [df.data[i] EXCEPT ![j] = col[i]]]]

\* the dtype pandas gives a column holding these cells
Dtype(col) ==
    IF \A i \in DOMAIN col : col[i].t = "bool" THEN "bool"
    ELSE IF \A i \in DOMAIN col : col[i].t = "int" THEN "int64"
    ELSE IF \A i \in DOMAIN col : col[i].t \in {"float", "nan"} THEN "float64"
    ELSE "object"

\* The column the DataFrame constructor builds from a list of Python
\* values: numbers with a None or a float among them become float64 (None
\* becomes NaN); every other mixture is kept as an object column.
InferColumn(col) ==
    IF /\ \A i \in DOMAIN col : col[i].t \in {"int", "float", "none", "nan"}
       /\ \E i \in DOMAIN col : col[i].t \in {"int", "float", "nan"}
       /\ \E i \in DOMAIN col : col[i].t # "int"
    THEN [i \in DOMAIN col |->
            IF col[i].t \in {"none", "nan"} THEN NaN
            ELSE CFloat(Hundredths(col[i]))]
    ELSE col

\* pd.DataFrame(data, columns=...) on rows of Python values
DataFrame(columns, data) ==
    LET raw == [columns |-> columns, data |-> data]
    IN  [columns |-> columns,
         data |-> [i \in DOMAIN data |->
                     [j \in DOMAIN columns |-> InferColumn(Column(raw, j))[i]]]]

(***************************************************************************)
(* Serialisation: DataFrame.to_json(orient='split', index=False) and       *)
(* pd.read_json(orient='split').  A stored string is [valid, columns,      *)
(* data]: valid is whether it parses as a 'split' document.                *)
(***************************************************************************)
\* NaN and None are both written as null
JsonCell(c) == IF c.t \in {"nan", "none"} THEN Null ELSE c

to_json(df) ==
    [valid |-> TRUE,
     columns |-> df.columns,
     data |-> [i \in DOMAIN df.data |->
                 [j \in DOMAIN df.data[i] |-> JsonCell(df.data[i][j])]]]

\* ujson_loads: a JSON null is Python's None
PyCell(c) == IF c.t = "null" THEN None ELSE c

\* the texts float() accepts, among the texts of the model, and their value
IsNumericText(x) == x = "7"
TextHundredths(x) == 700

\* Series.astype('float64') of an object column succeeds on these cells
FloatOK(c) ==
    \/ c.t \in {"bool", "int", "float", "none", "nan"}
    \/ c.t = "str" /\ IsNumericText(c.s)

AsFloat(c) ==
    IF c.t \in {"none", "nan"} THEN NaN
    ELSE IF c.t = "str" THEN CFloat(TextHundredths(c.s))
    ELSE CFloat(Hundredths(c))

\* Series.astype('int64') succeeds and compares equal to the column
IntOK(c) == c.t \in {"bool", "int"} \/ (c.t = "float" /\ c.n % 100 = 0)

AsInt(c) == IF c.t = "float" THEN CInt(c.n \div 100) ELSE CInt(c.n)

\* Parser._try_convert_data with dtype=True: an object column is tried as
\* float64, then a float64 or object column as int64
try_convert_data(col) ==
    LET floated == IF Dtype(col) = "object" /\ \A i \in DOMAIN col : FloatOK(col[i])
                   THEN [i \in DOMAIN col |-> AsFloat(col[i])]
                   ELSE col
    IN  IF /\ Len(floated) > 0
           /\ Dtype(floated) \in {"float64", "object"}
           /\ \A i \in DOMAIN floated : IntOK(floated[i])
        THEN [i \in DOMAIN floated |-> AsInt(floated[i])]
        ELSE floated

\* pd.read_json(data_json, orient='split'): raises on a string that is no
\* 'split' document, else builds the frame and converts each column
read_json(doc) ==
    IF ~doc.valid THEN [raised |-> TRUE, df |-> EmptyDataFrame]
    ELSE LET built == DataFrame(doc.columns,
                        [i \in DOMAIN doc.data |->
                           [j \in DOMAIN doc.data[i] |-> PyCell(doc.data[i][j])]])
         IN  [raised |-> FALSE,
              df |-> [columns |-> built.columns,
                      data |-> [i \in DOMAIN built.data |->
                                  [j \in DOMAIN built.columns |->
                                     try_convert_data(Column(built, j))[i]]]]]

\* one element under Series.astype(bool): Python truthiness, NaN is true
astype_bool(c) ==
    CASE c.t = "bool" -> c
      [] c.t \in {"int", "float"} -> CBool(c.n # 0)
      [] c.t = "nan" -> CBool(TRUE)
      [] c.t = "none" -> CBool(FALSE)
      [] c.t = "str" -> CBool(c.s # "")
      [] OTHER -> CBool(FALSE)

\* for col in df.columns: if 'Présence' in col: df[col] = df[col].astype(bool)
CoercePresence(df) ==
    [columns |-> df.columns,
     data |-> [i \in DOMAIN df.data |->
                 [j \in DOMAIN df.data[i] |->
                    IF Contains(df.columns[j], "Présence")
                    THEN astype_bool(df.data[i][j])
                    ELSE df.data[i][j]]]]

\* database_connector.fetch_data, on the session state ss
fetch_data(ss) ==
    IF FIREBASE_COLLECTION_KEY \in DOMAIN ss
    THEN LET r == read_json(ss[FIREBASE_COLLECTION_KEY])
         IN  IF r.raised THEN r ELSE [raised |-> FALSE, df |-> CoercePresence(r.df)]
    ELSE [raised |-> FALSE, df |-> EmptyDataFrame]

\* the session state with key k set to v
SetKey(ss, k, v) == [x \in DOMAIN ss \cup {k} |-> IF x = k THEN v ELSE ss[x]]

\* database_connector.write_data: the session state after the call
write_data(ss, df) == SetKey(ss, FIREBASE_COLLECTION_KEY, to_json(df))

\* app.load_persisted_data
load_persisted_data(ss) ==
    IF DATA_KEY \in DOMAIN ss
    THEN LET r == read_json(ss[DATA_KEY])
         IN  IF r.raised THEN r ELSE [raised |-> FALSE, df |-> CoercePresence(r.df)]
    ELSE [raised |-> FALSE, df |-> EmptyDataFrame]

\* app.save_persisted_data: the session state after the call
save_persisted_data(ss, df) == SetKey(ss, DATA_KEY, to_json(df))

\* load_initial_data without its guard
load_initial_data_always(ss, df_csv) == SetKey(ss, DATA_KEY, to_json(df_csv))

\* app.load_initial_data: the session state after the call
load_initial_data(ss, df_csv) ==
    IF DATA_KEY \notin DOMAIN ss
    THEN SetKey(ss, DATA_KEY, to_json(df_csv))
    ELSE ss

(***************************************************************************)
(* Reports.  A report function's result is [kind, df, reports]: kind is    *)
(* "none" (it returned None), "raised" (it raised) or "report"; df is the  *)
(* frame it was given, as the call leaves it; reports are the frames it    *)
(* may return.  A report is [columns, data, index]: index[i] is the        *)
(* position in df of the row shown at place i (the frame's row labels).    *)
(***************************************************************************)

\* df[name] = col: replaces the column, or appends it
AssignColumn(df, name, col) ==
    IF HasColumn(df, name) THEN WithColumn(df, ColumnIndex(df, name), col)
    ELSE [columns |-> Append(df.columns, name),
          data |-> [i \in DOMAIN df.data |-> Append(df.data[i], col[i])]]

\* operator.invert on one element of a column of this dtype; a cell of
\* kind "error" stands for the TypeError
Invert(c, dtype) ==
    CASE dtype = "bool" -> CBool(c.n = 0)
      [] dtype = "int64" -> CInt(-c.n - 1)
      [] dtype = "object" /\ c.t \in {"bool", "int"} -> CInt(-c.n - 1)
      [] OTHER -> [t |-> "error", n |-> 0, s |-> ""]

RECURSIVE SumCells(_)
\* the sum of the numbers of a sequence of cells
SumCells(cells) ==
    IF cells = <<>> THEN 0
    ELSE Head(cells).n + SumCells(Tail(cells))

RECURSIVE SelectSeq2(_, _, _)
\* the elements row[j] with j in js, in order
SelectSeq2(row, js, j) ==
    IF j > Len(row) THEN <<>>
    ELSE IF j \in js THEN <<row[j]>> \o SelectSeq2(row, js, j + 1)
    ELSE SelectSeq2(row, js, j + 1)

\* ColumnsWith with == in place of in
ColumnsNamed(df, tok) == {j \in DOMAIN df.columns : df.columns[j] = <<tok>>}

\* the positions of the columns whose name contains tok
ColumnsWith(df, tok) == {j \in DOMAIN df.columns : Contains(df.columns[j], tok)}

Perms(n) == {p \in [1..n -> 1..n] : \A i, j \in 1..n : p[i] = p[j] => i = j}

\* key a must come before key b in a descending sort, NaN last
Precedes(a, b) ==
    /\ a.t # "nan"
    /\ b.t = "nan" \/ Hundredths(a) > Hundredths(b)

\* sort_values(by=..., ascending=False) with the default kind='quicksort',
\* which is not stable: every order of the rows that is descending in the
\* key.  The order of rows with equal keys is the sort routine's.
sort_values(keys) ==
    {p \in Perms(Len(keys)) :
        \A i, j \in DOMAIN keys : i < j => ~Precedes(keys[p[j]], keys[p[i]])}

\* df[['Nom', 'S1', by]] or df[['Nom', by]], in the row order p
Project(df, by, p) ==
    LET names == IF HasColumn(df, S1) THEN <<Nom, S1, by>> ELSE <<Nom, by>>
    IN  [columns |-> names,
         data |-> [i \in DOMAIN p |->
                     [k \in DOMAIN names |-> df.data[p[i]][ColumnIndex(df, names[k])]]],
         index |-> p]

NoReport(kind, df) == [kind |-> kind, df |-> df, reports |-> {}]

\* app.generate_absence_report
generate_absence_report(df) ==
    LET absence_cols == ColumnsWith(df, "Présence")
        inverted == [i \in DOMAIN df.data |->
                       [j \in DOMAIN df.columns |->
                          Invert(df.data[i][j], Dtype(Column(df, j)))]]
        total == [i \in DOMAIN df.data |->
                    CInt(SumCells(SelectSeq2(inverted[i], absence_cols, 1)))]
        marked == AssignColumn(df, TotalAbsences, total)
    IN  IF absence_cols = {} THEN NoReport("none", df)
        ELSE IF \E i \in DOMAIN df.data : \E j \in absence_cols :
                    inverted[i][j].t = "error"
        THEN NoReport("raised", df)
        ELSE IF ~HasColumn(df, Nom) THEN NoReport("raised", marked)
        ELSE [kind |-> "report", df |-> marked,
              reports |-> {Project(marked, TotalAbsences, p) : p \in sort_values(total)}]

\* num / den rounded to an integer, halves to the even one (round(2) on
\* a value held in hundredths)
RoundHalfEven(num, den) ==
    LET q == num \div den
        r == num % den
    IN  IF 2 * r < den THEN q
        ELSE IF 2 * r > den THEN q + 1
        ELSE IF q % 2 = 0 THEN q ELSE q + 1

RECURSIVE SumHundredths(_)
SumHundredths(cells) ==
    IF cells = <<>> THEN 0
    ELSE Hundredths(Head(cells)) + SumHundredths(Tail(cells))

\* mean(axis=1).round(2) of one row's note cells: nulls are skipped, and a
\* row of nulls has the mean NaN
MeanRounded(cells) ==
    LET present == SelectSeq(cells, LAMBDA c : c.t \in {"bool", "int", "float"})
    IN  IF present = <<>> THEN NaN
        ELSE CFloat(RoundHalfEven(SumHundredths(present), Len(present)))

\* app.generate_notes_report
generate_notes_report(df) ==
    LET note_cols == ColumnsWith(df, "Note")
        moyenne == [i \in DOMAIN df.data |->
                      MeanRounded(SelectSeq2(df.data[i], note_cols, 1))]
        marked == AssignColumn(df, MoyenneNotes, moyenne)
    IN  IF note_cols = {} THEN NoReport("none", df)
        ELSE IF \E i \in DOMAIN df.data : \E j \in note_cols : df.data[i][j].t = "str"
        THEN NoReport("raised", df)
        ELSE IF ~HasColumn(df, Nom) THEN NoReport("raised", marked)
        ELSE [kind |-> "report", df |-> marked,
              reports |-> {Project(marked, MoyenneNotes, p) : p \in sort_values(moyenne)}]

(***************************************************************************)
(* The seed file.  A file is [exists, valid, columns, data]: whether       *)
(* 'data.csv' is there, whether read_csv parses it, and what it parses to  *)
(* (a blank field is the cell Null).                                       *)
(***************************************************************************)
RECURSIVE LStrip(_)
LStrip(col) == IF col # <<>> /\ Head(col) = " " THEN LStrip(Tail(col)) ELSE col

RECURSIVE RStrip(_)
RStrip(col) ==
    IF col # <<>> /\ col[Len(col)] = " " THEN RStrip(SubSeq(col, 1, Len(col) - 1))
    ELSE col

\* str.strip() of a column name
strip(col) == RStrip(LStrip(col))

\* pd.read_csv on a file that parses: a blank field is NaN
read_csv(file) ==
    DataFrame(file.columns,
              [i \in DOMAIN file.data |->
                 [j \in DOMAIN file.data[i] |->
                    IF file.data[i][j].t = "null" THEN NaN ELSE file.data[i][j]]])

\* app.load_and_clean_data_from_csv: [df, error], error the banner shown
load_and_clean_data_from_csv(file) ==
    IF ~file.exists THEN [df |-> EmptyDataFrame, error |-> "introuvable"]
    ELSE IF ~file.valid THEN [df |-> EmptyDataFrame, error |-> "exception"]
    ELSE LET df == read_csv(file)
         IN  [df |-> [columns |-> [j \in DOMAIN df.columns |-> strip(df.columns[j])],
                      data |-> df.data],
              error |-> ""]

(***************************************************************************)
(* The report buttons (app.py lines 200-212) on a session state whose      *)
(* data_df is set: [arg, kind, shown, report].  arg is the copy handed to  *)
(* the report function as the call leaves it, shown whether a report was   *)
(* displayed.                                                              *)
(***************************************************************************)
NoFrame == [columns |-> <<>>, data |-> <<>>, index |-> <<>>]

\* the call without the copy: the callee's changes reach the session table
CallInPlace(ss, result) == SetKey(ss, DATA_DF, result.df)

\* DataFrame.copy(): the callee's changes do not reach the caller's frame
CallOnCopy(ss, result) == ss

ButtonOutcomes(ss, result) ==
    IF result.kind = "report"
    THEN {[ss |-> CallOnCopy(ss, result), arg |-> result.df, kind |-> "report",
           shown |-> TRUE, report |-> r] : r \in result.reports}
    ELSE {[ss |-> CallOnCopy(ss, result), arg |-> result.df, kind |-> result.kind,
           shown |-> FALSE, report |-> NoFrame]}

\* if st.button("Bilan des Absences"): ...
AbsenceButton(ss) == ButtonOutcomes(ss, generate_absence_report(ss[DATA_DF]))

\* if st.button("Bilan des Notes Moyennes"): ...
NotesButton(ss) == ButtonOutcomes(ss, generate_notes_report(ss[DATA_DF]))

(***************************************************************************)
(* The function harness: each operation applied once to an input drawn     *)
(* from the bounded inputs.                                                *)
(***************************************************************************)
Students == <<"Alice", "Bob", "Chloé", "David">>
Groups == {CStr("A"), CStr("7")}
Stored == {CBool(TRUE), CBool(FALSE), CInt(1), CInt(0),
           CStr("true"), CStr("false"), Null}
Flags == {CBool(TRUE), CBool(FALSE)}
Notes1 == {CInt(12), CFloat(1250), CFloat(1500), Null}
Notes2 == {CInt(16), Null}

PaddedNom == <<" ", "Nom", " ">>

\* the cells row i may hold in a column of the bounded inputs: the i-th
\* student's name, or one of the column's values
CellsOf(name, i) ==
    CASE name = Nom \/ name = PaddedNom -> {CStr(Students[i])}
      [] name = S1 -> Groups
      [] name = PresenceS1 -> Stored
      [] name = PresenceS2 -> Flags
      [] name = NoteS1 -> Notes1
      [] OTHER -> Notes2

Headers == {<<Nom, PresenceS1, PresenceS2>>, <<Nom, S1, NoteS1>>,
            <<Nom, NoteS1, NoteS2>>, <<Nom, S1>>, <<PaddedNom, S1>>,
            <<PaddedNom, PresenceS2>>}

RECURSIVE RowsUpTo(_, _, _)
\* the rows of the first k columns of header h, for row i
RowsUpTo(h, i, k) ==
    IF k = 0 THEN {<<>>}
    ELSE {Append(r, c) : r \in RowsUpTo(h, i, k - 1), c \in CellsOf(h[k], i)}

RECURSIVE TablesOf(_, _)
\* the tables of n rows under header h
TablesOf(h, n) ==
    IF n = 0 THEN {<<>>}
    ELSE {Append(d, r) : d \in TablesOf(h, n - 1), r \in RowsUpTo(h, n, Len(h))}

Grids == UNION {UNION {{[exists |-> TRUE, valid |-> TRUE, columns |-> h, data |-> d] :
                          d \in TablesOf(h, n)} : n \in 1..MaxRows} : h \in Headers}

Inputs == Grids \cup {[exists |-> TRUE, valid |-> FALSE, columns |-> <<>>, data |-> <<>>],
                      [exists |-> FALSE, valid |-> FALSE, columns |-> <<>>, data |-> <<>>]}

\* the input as a stored string, and as a frame
InputDoc == [valid |-> fin.valid, columns |-> fin.columns, data |-> fin.data]
InputFrame ==
    DataFrame(fin.columns,
              [i \in DOMAIN fin.data |->
                 [j \in DOMAIN fin.data[i] |-> PyCell(fin.data[i][j])]])

NoState == [x \in {} |-> 0]

Result(kind, df, report, displayed) ==
    [kind |-> kind, df |-> df, report |-> report, shown |-> displayed]

FetchResult(r) ==
    Result(IF r.raised THEN "raised" ELSE "frame", r.df, NoFrame, FALSE)

SessionIdle ==
    /\ csv_file = [exists |-> FALSE, valid |-> FALSE, columns |-> <<>>, data |-> <<>>]
    /\ session_state = NoState
    /\ df_active = EmptyDataFrame
    /\ click = "none"
    /\ grid_in = EmptyDataFrame
    /\ report_arg = EmptyDataFrame
    /\ shown = NoFrame

SessionVars == <<csv_file, session_state, df_active, click, grid_in, report_arg, shown>>

FnInit ==
    /\ SessionIdle
    /\ fop = "init"
    /\ fin \in Inputs
    /\ fout = Result("init", EmptyDataFrame, NoFrame, FALSE)

Apply(op, result) ==
    /\ fop = "init"
    /\ fop' = op
    /\ fout' = result
    /\ UNCHANGED <<fin, SessionVars>>

\* fetch_data() after write_data(T)
FnWriteFetch ==
    /\ fin.valid
    /\ Apply("write_fetch", FetchResult(fetch_data(write_data(NoState, InputFrame))))

\* load_persisted_data() after save_persisted_data(T)
FnSaveLoad ==
    /\ fin.valid
    /\ Apply("save_load",
             FetchResult(load_persisted_data(save_persisted_data(NoState, InputFrame))))

\* fetch_data() on a slot holding the input string
FnFetch ==
    /\ fin.exists
    /\ Apply("fetch", FetchResult(fetch_data(SetKey(NoState, FIREBASE_COLLECTION_KEY, InputDoc))))

\* load_persisted_data() on a slot holding the input string
FnLoad ==
    /\ fin.exists
    /\ Apply("load", FetchResult(load_persisted_data(SetKey(NoState, DATA_KEY, InputDoc))))

\* load_and_clean_data_from_csv() on the input file
FnCsv ==
    /\ fop = "init"
    /\ LET r == load_and_clean_data_from_csv(fin)
       IN  Apply("csv", Result(IF r.error = "" THEN "frame" ELSE "error", r.df, NoFrame, FALSE))

FnButton(op, outcomes) ==
    \E o \in outcomes : Apply(op, Result(o.kind, o.arg, o.report, o.shown))

\* the absence button on a session whose table is the input frame
FnAbsence ==
    /\ fin.valid
    /\ FnButton("absence", AbsenceButton(SetKey(NoState, DATA_DF, InputFrame)))

\* the notes button on a session whose table is the input frame
FnNotes ==
    /\ fin.valid
    /\ FnButton("notes", NotesButton(SetKey(NoState, DATA_DF, InputFrame)))

\* the absence button on a session whose table was loaded from the slot
FnLoadAbsence ==
    /\ fin.valid
    /\ LET r == load_persisted_data(SetKey(NoState, DATA_KEY, InputDoc))
       IN  FnButton("load_absence", AbsenceButton(SetKey(NoState, DATA_DF, r.df)))

FnNext ==
    \/ FnWriteFetch
    \/ FnSaveLoad
    \/ FnFetch
    \/ FnLoad
    \/ FnCsv
    \/ FnAbsence
    \/ FnNotes
    \/ FnLoadAbsence

FnSpec == FnInit /\ [][FnNext]_vars

(***************************************************************************)
(* The session: one action per user interaction, each a whole run of the   *)
(* script app.py from its first line to its last.                          *)
(***************************************************************************)
EDITOR_KEY == "data_editor"

File(columns, data) == [exists |-> TRUE, valid |-> TRUE, columns |-> columns, data |-> data]

\* the seed files of the model
SeedFiles ==
    {[exists |-> FALSE, valid |-> FALSE, columns |-> <<>>, data |-> <<>>],
     [exists |-> TRUE, valid |-> FALSE, columns |-> <<>>, data |-> <<>>],
     File(<<Nom, S1>>, <<>>),
     File(<<PaddedNom, S1, PresenceS1, NoteS1>>,
          << <<CStr("Alice"), CStr("A"), CBool(TRUE), CFloat(1500)>>,
             <<CStr("Bob"), CStr("B"), CBool(FALSE), CFloat(1000)>> >>),
     File(<<Nom, PresenceS1, PresenceS2>>,
          << <<CStr("Alice"), CBool(TRUE), Null>>,
             <<CStr("Bob"), CBool(FALSE), CBool(FALSE)>> >>),
     File(<<Nom, NoteS1, NoteS2>>,
          << <<CStr("Alice"), CInt(12), CInt(16)>>,
             <<CStr("Bob"), CFloat(1250), Null>> >>),
     File(<<Nom, S1>>,
          << <<CStr("Alice"), CStr("7")>>, <<CStr("Bob"), CStr("A")>> >>)}

\* Reload with the table kept once it is in the session state
ReloadOnce(ss, initial_df, active) ==
    IF ~IsEmpty(initial_df) /\ DATA_DF \notin DOMAIN ss
    THEN LET seeded == load_initial_data(ss, initial_df)
             r == load_persisted_data(seeded)
         IN  [ss |-> SetKey(seeded, DATA_DF, r.df), df_active |-> r.df, raised |-> r.raised]
    ELSE [ss |-> ss, df_active |-> active, raised |-> FALSE]

\* app.py lines 133-137 on the session state ss: [ss, df_active, raised];
\* a read_json that raises ends the run at line 136
Reload(ss, initial_df, active) ==
    IF ~IsEmpty(initial_df)
    THEN LET seeded == load_initial_data(ss, initial_df)
             r == load_persisted_data(seeded)
         IN  IF r.raised THEN [ss |-> seeded, df_active |-> active, raised |-> TRUE]
             ELSE [ss |-> SetKey(seeded, DATA_DF, r.df), df_active |-> r.df,
                   raised |-> FALSE]
    ELSE [ss |-> ss, df_active |-> active, raised |-> FALSE]

\* st.data_editor(df, key="data_editor", num_rows="fixed"): the widget
\* keeps its edits while it is handed the same data, and is a new widget
\* without edits when handed other data: [ss, edited_df]
data_editor(ss, df) ==
    IF EDITOR_KEY \in DOMAIN ss /\ ss[EDITOR_KEY].input = df
    THEN [ss |-> ss, edited_df |-> ss[EDITOR_KEY].output]
    ELSE [ss |-> SetKey(ss, EDITOR_KEY, [input |-> df, output |-> df]),
          edited_df |-> df]

\* UpdateSession that also writes the edited table to the slot
UpdateSessionAutoSave(ss, edited_df) ==
    IF edited_df # ss[DATA_DF]
    THEN save_persisted_data(SetKey(ss, DATA_DF, edited_df), edited_df)
    ELSE ss

\* if not edited_df.equals(st.session_state.data_df): ... = edited_df
UpdateSession(ss, edited_df) ==
    IF edited_df # ss[DATA_DF] THEN SetKey(ss, DATA_DF, edited_df) ELSE ss

\* if st.button("Sauvegarder les Modifications"): save_persisted_data(...)
SaveButton(ss) == save_persisted_data(ss, ss[DATA_DF])

Outcome(ss, active, grid, arg, displayed) ==
    [ss |-> ss, df_active |-> active, grid_in |-> grid, report_arg |-> arg,
     shown |-> displayed]

\* lines 195-212: the button that was clicked, if any
Buttons(ss, kind, active, grid) ==
    CASE kind = "save" ->
            {Outcome(SaveButton(ss), active, grid, EmptyDataFrame, NoFrame)}
      [] kind = "absences" ->
            {Outcome(o.ss, active, grid, o.arg, o.report) : o \in AbsenceButton(ss)}
      [] kind = "notes" ->
            {Outcome(o.ss, active, grid, o.arg, o.report) : o \in NotesButton(ss)}
      [] OTHER -> {Outcome(ss, active, grid, EmptyDataFrame, NoFrame)}

\* lines 140-216: the grid and the buttons, or the 'DataFrame est vide' note
Page(ss, kind, active) ==
    IF DATA_DF \in DOMAIN ss /\ ~IsEmpty(ss[DATA_DF])
    THEN LET e == data_editor(ss, ss[DATA_DF])
         IN  Buttons(UpdateSession(e.ss, e.edited_df), kind, active, ss[DATA_DF])
    ELSE {Outcome(ss, active, EmptyDataFrame, EmptyDataFrame, NoFrame)}

\* one run of the script: the states it may end in
Script(ss, kind) ==
    LET initial_df == load_and_clean_data_from_csv(csv_file).df
        loaded == Reload(ss, initial_df, df_active)
    IN  IF loaded.raised
        THEN {Outcome(loaded.ss, loaded.df_active, EmptyDataFrame, EmptyDataFrame, NoFrame)}
        ELSE Page(loaded.ss, kind, loaded.df_active)

Run(ss, kind) ==
    /\ \E o \in Script(ss, kind) :
          /\ session_state' = o.ss
          /\ df_active' = o.df_active
          /\ grid_in' = o.grid_in
          /\ report_arg' = o.report_arg
          /\ shown' = o.shown
    /\ click' = kind
    /\ UNCHANGED <<csv_file, fop, fin, fout>>

\* the grid and the buttons are on the page
Rendered == click # "none" /\ EDITOR_KEY \in DOMAIN session_state

\* the values a user may give a cell of column j of the grid
NoteEdits == {1000, 1250}
EditValues(grid, j) ==
    IF Contains(grid.columns[j], "Présence") THEN {CBool(TRUE), CBool(FALSE)}
    ELSE IF Contains(grid.columns[j], "Note")
    THEN IF Dtype(Column(grid, j)) = "int64"
         THEN {CInt(h \div 100) : h \in {x \in NoteEdits : x % 100 = 0}}
         ELSE {CFloat(h) : h \in NoteEdits}
    ELSE {}

Init ==
    /\ csv_file \in SeedFiles
    /\ session_state = NoState
    /\ df_active = EmptyDataFrame
    /\ click = "none"
    /\ grid_in = EmptyDataFrame
    /\ report_arg = EmptyDataFrame
    /\ shown = NoFrame
    /\ fop = "idle"
    /\ fin = [exists |-> FALSE, valid |-> FALSE, columns |-> <<>>, data |-> <<>>]
    /\ fout = Result("idle", EmptyDataFrame, NoFrame, FALSE)

\* the browser opens the page: the first run
Start ==
    /\ click = "none"
    /\ Run(session_state, "start")

\* the page is run again without any widget having changed
Rerun ==
    /\ click # "none"
    /\ Run(session_state, "rerun")

\* the user changes one cell of the grid
Edit ==
    /\ Rendered
    /\ \E i \in DOMAIN session_state[EDITOR_KEY].output.data :
       \E j \in DOMAIN session_state[EDITOR_KEY].output.columns :
       \E v \in EditValues(session_state[EDITOR_KEY].input, j) :
          LET w == session_state[EDITOR_KEY]
          IN  /\ v # w.output.data[i][j]
              /\ Run(SetKey(session_state, EDITOR_KEY,
                            [w EXCEPT !.output.data[i][j] = v]), "edit")

Save == Rendered /\ Run(session_state, "save")

AbsenceReport == Rendered /\ Run(session_state, "absences")

NotesReport == Rendered /\ Run(session_state, "notes")

Next ==
    \/ Start
    \/ Rerun
    \/ Edit
    \/ Save
    \/ AbsenceReport
    \/ NotesReport

Spec == Init /\ [][Next]_vars

(***************************************************************************)
(* Properties.                                                             *)
(***************************************************************************)
\* the slot's content, as a sequence of zero or one stored strings
SlotOf(ss) == IF DATA_KEY \in DOMAIN ss THEN <<ss[DATA_KEY]>> ELSE <<>>

\* the cleaned seed, as every run gets it from the cache
CsvFrame == load_and_clean_data_from_csv(csv_file).df

\* two cells hold the same value of the same sort (15 and 15.0 are the
\* same number)
SameCell(a, b) ==
    \/ a = b
    \/ IsNumber(a) /\ IsNumber(b) /\ Hundredths(a) = Hundredths(b)

\* same columns in the same order, same rows in the same order, same values
SameTable(a, b) ==
    /\ a.columns = b.columns
    /\ Len(a.data) = Len(b.data)
    /\ \A i \in DOMAIN a.data : \A j \in DOMAIN a.columns :
          SameCell(a.data[i][j], b.data[i][j])

ReportClicks == {"absences", "notes"}

\* C1: the slot changes only in a run triggered by Save, or in the run that
\* seeds it while it is absent; a run triggered by an edit or by a report
\* button leaves the slot as it was.
C1_OnlySaveWritesSlot ==
    [][/\ SlotOf(session_state') # SlotOf(session_state)
            => click' = "save" \/ SlotOf(session_state) = <<>>
       /\ click' \in {"edit"} \cup ReportClicks
            => SlotOf(session_state') = SlotOf(session_state)]_vars

\* C1 witness: an edit run has ended with a session table the slot does
\* not hold
C1_UnsavedEdit ==
    /\ click = "edit"
    /\ DATA_DF \in DOMAIN session_state
    /\ SlotOf(session_state) # <<to_json(session_state[DATA_DF])>>
    /\ ~SameTable(session_state[DATA_DF], df_active)

\* C4: a run writes the seed into the slot exactly when the slot is absent
\* (and the seed is not empty); with the slot present, a run that is not a
\* Save leaves it alone, and the table the run loads is the slot's.
C4_SeedOnlyWhenAbsent ==
    [][/\ SlotOf(session_state) = <<>>
            => SlotOf(session_state') =
                  IF IsEmpty(CsvFrame) THEN <<>> ELSE <<to_json(CsvFrame)>>
       /\ SlotOf(session_state) # <<>> /\ click' # "save"
            => SlotOf(session_state') = SlotOf(session_state)
       /\ SlotOf(session_state) # <<>>
            => df_active' = CoercePresence(read_json(session_state[DATA_KEY]).df)]_vars

\* C4 witness: a later run has loaded a saved table that is not the seed's
C4_SavedTableLoaded ==
    /\ click = "rerun"
    /\ SlotOf(session_state) # <<to_json(CsvFrame)>>
    /\ SlotOf(session_state) # <<>>
    /\ df_active = CoercePresence(read_json(session_state[DATA_KEY]).df)
    /\ ~SameTable(df_active, CoercePresence(read_json(to_json(CsvFrame)).df))

\* the frame df with one more column, named name
OneMoreColumn(arg, df, name) ==
    /\ arg.columns = Append(df.columns, name)
    /\ \A i \in DOMAIN df.data : SubSeq(arg.data[i], 1, Len(df.columns)) = df.data[i]

C10_TableNotReloaded ==
    [][(DATA_DF \in DOMAIN session_state /\ click' \in {"save"} \cup ReportClicks)
         => grid_in' = session_state[DATA_DF] ]_vars

\* C10 amended: in every run with a seed that is not empty, the session
\* table is assigned anew from the slot before the grid is drawn: the grid
\* is handed the slot's table, and the session table ends the run as the
\* grid's output over that table.
C10_TableReloadedEveryRun ==
    [][~IsEmpty(CsvFrame)
         => /\ grid_in' = load_persisted_data(
                             load_initial_data(session_state, CsvFrame)).df
            /\ df_active' = grid_in'
            /\ session_state'[EDITOR_KEY].input = grid_in'
            /\ session_state'[DATA_DF] = session_state'[EDITOR_KEY].output ]_vars

\* C10 witness: a report run handed the grid the slot's table while the
\* session table held unsaved edits
C10_ReloadedOverEdits ==
    /\ click \in ReportClicks
    /\ DATA_DF \in DOMAIN session_state
    /\ ~SameTable(grid_in, session_state[DATA_DF])

(***************************************************************************)
(* Properties of the functions, over the bounded inputs.                   *)
(***************************************************************************)
PresenceColumns == {j \in DOMAIN fin.columns : Contains(fin.columns[j], "Présence")}
NoteColumns == {j \in DOMAIN fin.columns : Contains(fin.columns[j], "Note")}

\* the input is a table of the data model: booleans in its attendance
\* columns, numbers in its grade columns, strings in the others
TypedInput ==
    /\ fin.valid
    /\ \E j \in DOMAIN fin.columns : fin.columns[j] = Nom
    /\ \A i \in DOMAIN fin.data : \A j \in DOMAIN fin.columns :
          fin.data[i][j].t = (IF j \in PresenceColumns THEN "bool"
                              ELSE IF j \in NoteColumns THEN fin.data[i][j].t
                              ELSE "str")
    /\ \A i \in DOMAIN fin.data : \A j \in NoteColumns : IsNumber(fin.data[i][j])

\* C2: writing a table of strings, numbers and booleans and fetching it
\* back gives a table equal to it: same columns, same rows, same values,
\* booleans still booleans, numbers still numbers, strings still strings.
C2_RoundTripIdentity ==
    (fop \in {"write_fetch", "save_load"} /\ TypedInput)
        => fout.kind = "frame" /\ SameTable(fout.df, InputFrame)

\* C3: after a fetch, every attendance cell is a boolean, and it is the
\* truth value that was stored: true for 1, "true" and true, false for 0,
\* "false" and false.
C3_CoercionNormalises ==
    (fop \in {"fetch", "load"} /\ fin.valid)
        => /\ fout.kind = "frame"
           /\ \A i \in DOMAIN fin.data : \A j \in PresenceColumns :
                 /\ fout.df.data[i][j].t = "bool"
                 /\ fin.data[i][j] \in {CBool(TRUE), CInt(1), CStr("true")}
                      => fout.df.data[i][j] = CBool(TRUE)
                 /\ fin.data[i][j] \in {CBool(FALSE), CInt(0), CStr("false")}
                      => fout.df.data[i][j] = CBool(FALSE)

\* the last cell of row i of a report: its sort value
SortValue(report, i) == report.data[i][Len(report.columns)]

\* C6: a report has one row per row of the table, in descending order of
\* the sort value, rows of equal sort value in the table's order.
C6_SortedStable ==
    (fop \in {"absence", "notes"} /\ fout.kind = "report")
        => /\ Len(fout.report.data) = Len(fin.data)
           /\ {fout.report.index[i] : i \in DOMAIN fout.report.index} = DOMAIN fin.data
           /\ \A i, j \in DOMAIN fout.report.data :
                 i < j => /\ ~Precedes(SortValue(fout.report, j), SortValue(fout.report, i))
                          /\ SortValue(fout.report, i) = SortValue(fout.report, j)
                               => fout.report.index[i] < fout.report.index[j]

\* C7: the total reported for a row is the number of attendance columns
\* whose value in that row is false, a null one counting as false, for a
\* table given to the report and for a table loaded from the slot.
C7_TotalCountsFalseAndNull ==
    (/\ fop \in {"absence", "load_absence"}
     /\ PresenceColumns # {}
     /\ \E j \in DOMAIN fin.columns : fin.columns[j] = Nom
     /\ \A i \in DOMAIN fin.data : \A j \in PresenceColumns :
           fin.data[i][j].t \in {"bool", "null"})
        => /\ fout.kind = "report"
           /\ \A i \in DOMAIN fout.report.data :
                 SortValue(fout.report, i) =
                    CInt(Cardinality({j \in PresenceColumns :
                            fin.data[fout.report.index[i]][j] \in {CBool(FALSE), Null}}))

\* C8: a table without an attendance column gets None from the absence
\* report and a table without a grade column None from the grade report,
\* nothing is displayed and nothing is raised; a table with such a column
\* does not get None, and gets a report when it is a table of the data
\* model.
C8_NoneIffNoColumn ==
    /\ fop = "absence" => (fout.kind = "none" <=> PresenceColumns = {})
    /\ fop = "notes" => (fout.kind = "none" <=> NoteColumns = {})
    /\ (fop \in {"absence", "notes"} /\ fout.kind = "none")
         => ~fout.shown /\ fout.report = NoFrame /\ fout.df = InputFrame
    /\ (fop = "absence" /\ PresenceColumns # {} /\ TypedInput)
         => fout.kind = "report" /\ fout.shown
    /\ (fop = "notes" /\ NoteColumns # {} /\ TypedInput)
         => fout.kind = "report" /\ fout.shown

\* C8 witness: the absence report returned None for a table that has grade
\* columns only
C8_NoneReturned ==
    /\ fop = "absence"
    /\ fout.kind = "none"
    /\ NoteColumns # {}

\* C9: a fetch from a slot whose content is no serialized table returns an
\* empty table instead of raising, as the seed loader does on a missing or
\* unparsable file.
C9_NoFailureEscapes ==
    /\ (fop \in {"fetch", "load"} /\ ~fin.valid)
         => fout.kind = "frame" /\ IsEmpty(fout.df)
    /\ (fop = "csv" /\ ~(fin.exists /\ fin.valid))
         => fout.kind = "error" /\ IsEmpty(fout.df)

====
